---- MODULE Spec2Model ----
(***************************************************************************)
(* Model of core/reusable_future_box.rs: ReusableBoxFuture<T>, a box whose *)
(* heap allocation is reused when the replacing future has the same        *)
(* layout.  The heap, the slot contents, the fat pointer (address and      *)
(* vtable) and the stored Layout are explicit; every operation is split at *)
(* the points where the source performs a separate memory effect, and a    *)
(* program counter forces the steps of one call to run in source order.    *)
(* Box::new is the allocation event and dropping a Box is the destructor   *)
(* of its contents followed by the deallocation, also when the destructor  *)
(* unwinds.                                                                *)
(***************************************************************************)
EXTENDS Integers, FiniteSets, Sequences, TLC

\* ---- bounds -------------------------------------------------------------
MaxTasks == 3      \* futures created over one run (new + set + try_set)
MaxAddr  == 3      \* heap addresses the allocator can hand out
MaxPolls == 2      \* poll calls over one run

Addrs   == 1 .. MaxAddr
TaskIds == 1 .. MaxTasks

\* ---- the concrete future types F the generic methods are called with ----
\* A and D: same layout, different types; the destructor of D panics.
\* B: larger.  E: same size as A, smaller alignment; its poll panics.
Types == {"A", "B", "D", "E"}

NoLayout == [size |-> 0, align |-> 0]

\* Layout::for_value(&future) for a future of type ty
LayoutOf(ty) ==
  CASE ty = "B" -> [size |-> 16, align |-> 8]
    [] ty = "E" -> [size |-> 8,  align |-> 4]
    [] OTHER    -> [size |-> 8,  align |-> 8]

DropPanics(ty) == ty = "D"

ReadyAt(ty) == IF ty = "A" THEN 2 ELSE 1

\* outcome of the n-th poll (n >= 1) of a future of type ty
PollOutcome(ty, n) ==
  IF ty = "E" THEN "panic"
  ELSE IF n >= ReadyAt(ty) THEN "Ready" ELSE "Pending"

\* ---- state --------------------------------------------------------------
VARIABLES
  heap,     \* address -> block: live, layout, val (task in the slot), valid
  boxed,    \* self.boxed: [addr, vt]  (data pointer and vtable)
  layout,   \* self.layout
  alive,    \* the container has not been dropped
  pc,       \* position inside the running call; "idle" between calls
  op,       \* the call being run / last run
  arg,      \* the future passed to the running / last set or try_set
  tmp,      \* the value of Self::new(future) before it is assigned to *self
  result,   \* catch_unwind result / unwinding flag: "none", "Ok", "Err"
  ret,      \* what the caller observed from the last call
  nextId,   \* number of futures created so far
  ttype,    \* task -> its concrete type
  drops,    \* task -> number of times its destructor has run
  polls,    \* task -> number of times it has been polled
  installed,\* tasks ever written into the container's slot
  nAlloc,   \* allocations performed by the running / last call
  nFree,    \* deallocations performed by the running / last call
  pre,      \* container and heap as they were when the call started
  thread,   \* the thread that holds the container
  origin,   \* task -> the thread that created it (0: not created)
  fmtOut    \* what Debug::fmt calls have written, in order

vars == <<heap, boxed, layout, alive, pc, op, arg, tmp, result, ret, nextId,
          ttype, drops, polls, installed, nAlloc, nFree, pre, thread, origin,
          fmtOut>>

FreeBlock == [live |-> FALSE, layout |-> NoLayout, val |-> 0, valid |-> FALSE]
NoBox     == [addr |-> 0, vt |-> "none"]
NoSelf    == [boxed |-> NoBox, layout |-> NoLayout]
NoRet     == [kind |-> "none", task |-> 0, addr |-> 0]

FreeAddrs(h) == {a \in Addrs : ~h[a].live}
LiveAddrs(h) == {a \in Addrs : h[a].live}

\* number of poll calls made so far
TotalPolls ==
  Cardinality({x \in TaskIds \X (1 .. MaxPolls) : x[2] <= polls[x[1]]})

\* the task physically present in the container's slot
Occupant == heap[boxed.addr].val

Snapshot == [boxed |-> boxed, layout |-> layout, heap |-> heap,
             drops |-> drops, polls |-> polls]

\* A dispatch through the fat pointer b is defined only if the block is
\* live, holds a constructed value, and the vtable is that value's type.
Sound(b) ==
  /\ b.addr \in Addrs
  /\ heap[b.addr].live
  /\ heap[b.addr].valid
  /\ heap[b.addr].val \in TaskIds
  /\ ttype[heap[b.addr].val] = b.vt

\* ---- new ----------------------------------------------------------------
\* Box::new(future) at address a: the heap after the allocation
BoxNew(h, t, ty, a) ==
  [h EXCEPT ![a] = [live |-> TRUE, layout |-> LayoutOf(ty),
                    val |-> t, valid |-> TRUE]]

\* Self { boxed, layout }
NewSelf(ty, a) == [boxed |-> [addr |-> a, vt |-> ty], layout |-> LayoutOf(ty)]

Init ==
  \E ty \in Types, a \in Addrs :
    /\ heap = BoxNew([x \in Addrs |-> FreeBlock], 1, ty, a)
    /\ boxed = NewSelf(ty, a).boxed
    /\ layout = NewSelf(ty, a).layout
    /\ alive = TRUE
    /\ pc = "idle"
    /\ op = "new"
    /\ arg = 1
    /\ tmp = NoSelf
    /\ result = "none"
    /\ ret = NoRet
    /\ nextId = 1
    /\ ttype = [t \in TaskIds |-> IF t = 1 THEN ty ELSE "none"]
    /\ drops = [t \in TaskIds |-> 0]
    /\ polls = [t \in TaskIds |-> 0]
    /\ installed = {1}
    /\ nAlloc = 1
    /\ nFree = 0
    /\ thread = 1
    /\ origin = [t \in TaskIds |-> IF t = 1 THEN 1 ELSE 0]
    /\ fmtOut = << >>
    /\ pre = [boxed |-> NoBox, layout |-> NoLayout,
              heap |-> [x \in Addrs |-> FreeBlock],
              drops |-> [t \in TaskIds |-> 0],
              polls |-> [t \in TaskIds |-> 0]]

\* ---- set / try_set ------------------------------------------------------
\* mutants of the layout comparison: size only, alignment only, never equal
SameLayoutSizeOnly(l1, l2) == l1.size = l2.size

SameLayoutAlignOnly(l1, l2) == l1.align = l2.align

SameLayoutNever(l1, l2) == FALSE

\* layout == self.layout
SameLayout(l1, l2) == l1 = l2

\* the caller builds a future of type ty and enters a call with it
Enter(name, ty) ==
  /\ pc = "idle"
  /\ alive
  /\ nextId < MaxTasks
  /\ nextId' = nextId + 1
  /\ ttype' = [ttype EXCEPT ![nextId + 1] = ty]
  /\ origin' = [origin EXCEPT ![nextId + 1] = thread]
  /\ arg' = nextId + 1
  /\ op' = name
  /\ pre' = Snapshot
  /\ nAlloc' = 0
  /\ nFree' = 0
  /\ result' = "none"

Set ==
  \E ty \in Types :
    /\ Enter("set", ty)
    /\ pc' = IF SameLayout(LayoutOf(ty), layout) THEN "ssl_drop" ELSE "set_new"
    /\ UNCHANGED <<thread, fmtOut, heap, boxed, layout, alive, tmp, ret,
                   drops, polls, installed>>

\* mutant: try_set falls back to reallocation like set
TrySetRealloc ==
  \E ty \in Types :
    /\ Enter("try_set", ty)
    /\ pc' = IF LayoutOf(ty) = layout THEN "ssl_drop" ELSE "set_new"
    /\ UNCHANGED <<thread, fmtOut, heap, boxed, layout, alive, tmp, ret,
                   drops, polls, installed>>

\* mutant: try_set accepts any future of the stored size
TrySetSizeOnly ==
  \E ty \in Types :
    /\ Enter("try_set", ty)
    /\ IF LayoutOf(ty).size = layout.size
       THEN /\ pc' = "ssl_drop"
            /\ ret' = ret
       ELSE /\ pc' = "idle"
            /\ ret' = [kind |-> "Err", task |-> nextId + 1, addr |-> 0]
    /\ UNCHANGED <<thread, fmtOut, heap, boxed, layout, alive, tmp, drops,
                   polls, installed>>

\* mutant: the comparison of try_set is inverted
TrySetInverted ==
  \E ty \in Types :
    /\ Enter("try_set", ty)
    /\ IF LayoutOf(ty) # layout
       THEN /\ pc' = "ssl_drop"
            /\ ret' = ret
       ELSE /\ pc' = "idle"
            /\ ret' = [kind |-> "Err", task |-> nextId + 1, addr |-> 0]
    /\ UNCHANGED <<thread, fmtOut, heap, boxed, layout, alive, tmp, drops,
                   polls, installed>>

\* mutant: a rejected future is dropped by try_set
TrySetRejectDrops ==
  \E ty \in Types :
    /\ Enter("try_set", ty)
    /\ IF LayoutOf(ty) = layout
       THEN /\ pc' = "ssl_drop"
            /\ ret' = ret
            /\ drops' = drops
       ELSE /\ pc' = "idle"
            /\ ret' = [kind |-> "Err", task |-> nextId + 1, addr |-> 0]
            /\ drops' = [drops EXCEPT ![nextId + 1] = 1]
    /\ UNCHANGED <<thread, fmtOut, heap, boxed, layout, alive, tmp, polls,
                   installed>>

TrySet ==
  \E ty \in Types :
    /\ Enter("try_set", ty)
    /\ IF SameLayout(LayoutOf(ty), layout)
       THEN /\ pc' = "ssl_drop"
            /\ ret' = ret
       ELSE /\ pc' = "idle"
            /\ ret' = [kind |-> "Err", task |-> nextId + 1, addr |-> 0]
    /\ UNCHANGED <<thread, fmtOut, heap, boxed, layout, alive, tmp, drops,
                   polls, installed>>

\* ---- set_same_layout ----------------------------------------------------
\* the destructor reached through the fat pointer b runs on the slot
DropInPlace(b) ==
  /\ heap' = [heap EXCEPT ![b.addr].valid = FALSE]
  /\ drops' = [t \in TaskIds |->
                 IF t = heap[b.addr].val THEN drops[t] + 1 ELSE drops[t]]
  /\ \E panicked \in (IF Sound(b) THEN {DropPanics(b.vt)} ELSE BOOLEAN) :
       result' = IF panicked THEN "Err" ELSE "Ok"

\* mutant: no catch_unwind, a panicking destructor unwinds out at once
SslDropNoCatch ==
  /\ pc = "ssl_drop"
  /\ DropInPlace(boxed)
  /\ pc' = IF result' = "Err" THEN "ssl_match" ELSE "ssl_write"
  /\ UNCHANGED <<thread, origin, fmtOut, boxed, layout, alive, op, arg, tmp,
                 ret, nextId, ttype,
                 polls, installed, nAlloc, nFree, pre>>

\* mutant: the old future is overwritten without being dropped
SslDropForget ==
  /\ pc = "ssl_drop"
  /\ result' = "Ok"
  /\ pc' = "ssl_write"
  /\ UNCHANGED <<thread, origin, fmtOut, heap, drops, boxed, layout, alive,
                 op, arg, tmp, ret, nextId,
                 ttype, polls, installed, nAlloc, nFree, pre>>

\* panic::catch_unwind(|| ptr::drop_in_place(self.boxed.as_ptr()))
SslDrop ==
  /\ pc = "ssl_drop"
  /\ DropInPlace(boxed)
  /\ pc' = "ssl_write"
  /\ UNCHANGED <<thread, origin, fmtOut, boxed, layout, alive, op, arg, tmp,
                 ret, nextId, ttype,
                 polls, installed, nAlloc, nFree, pre>>

\* mutant: the new future is written only if the destructor did not panic
SslWriteSkipOnPanic ==
  /\ pc = "ssl_write"
  /\ heap' = IF result = "Err" THEN heap
             ELSE [heap EXCEPT ![boxed.addr].val = arg,
                               ![boxed.addr].valid = TRUE]
  /\ installed' = IF result = "Err" THEN installed ELSE installed \cup {arg}
  /\ pc' = "ssl_vtable"
  /\ UNCHANGED <<thread, origin, fmtOut, boxed, layout, alive, op, arg, tmp,
                 result, ret, nextId, ttype, drops, polls, nAlloc, nFree, pre>>

\* ptr::write(self.boxed.as_ptr() as *mut F, future)
SslWrite ==
  /\ pc = "ssl_write"
  /\ heap' = [heap EXCEPT ![boxed.addr].val = arg, ![boxed.addr].valid = TRUE]
  /\ installed' = installed \cup {arg}
  /\ pc' = "ssl_vtable"
  /\ UNCHANGED <<thread, origin, fmtOut, boxed, layout, alive, op, arg, tmp,
                 result, ret, nextId,
                 ttype, drops, polls, nAlloc, nFree, pre>>

\* mutant: the vtable of self.boxed is left as it was
SslVtableStale ==
  /\ pc = "ssl_vtable"
  /\ pc' = "ssl_match"
  /\ UNCHANGED <<thread, origin, fmtOut, heap, boxed, layout, alive, op, arg,
                 tmp, result, ret, nextId,
                 ttype, drops, polls, installed, nAlloc, nFree, pre>>

\* self.boxed = NonNull::new_unchecked(self_ptr)
SslVtable ==
  /\ pc = "ssl_vtable"
  /\ boxed' = [addr |-> boxed.addr, vt |-> ttype[arg]]
  /\ pc' = "ssl_match"
  /\ UNCHANGED <<thread, origin, fmtOut, heap, layout, alive, op, arg, tmp,
                 result, ret, nextId,
                 ttype, drops, polls, installed, nAlloc, nFree, pre>>

\* match result { Ok(()) => {} }, then set returns () / try_set returns Ok(())
SslReturn ==
  /\ pc = "ssl_match"
  /\ result = "Ok"
  /\ ret' = [kind |-> IF op = "set" THEN "unit" ELSE "Ok", task |-> 0, addr |-> 0]
  /\ pc' = "idle"
  /\ UNCHANGED <<thread, origin, fmtOut, heap, boxed, layout, alive, op, arg,
                 tmp, result, nextId,
                 ttype, drops, polls, installed, nAlloc, nFree, pre>>

\* mutant: the captured panic is dropped instead of resumed
SslResumeUnwindSwallow ==
  /\ pc = "ssl_match"
  /\ result = "Err"
  /\ ret' = [kind |-> IF op = "set" THEN "unit" ELSE "Ok", task |-> 0, addr |-> 0]
  /\ pc' = "idle"
  /\ UNCHANGED <<thread, origin, fmtOut, heap, boxed, layout, alive, op, arg,
                 tmp, result, nextId, ttype, drops, polls, installed, nAlloc,
                 nFree, pre>>

\* match result { Err(payload) => panic::resume_unwind(payload) }
SslResumeUnwind ==
  /\ pc = "ssl_match"
  /\ result = "Err"
  /\ ret' = [kind |-> "panic", task |-> 0, addr |-> 0]
  /\ pc' = "idle"
  /\ UNCHANGED <<thread, origin, fmtOut, heap, boxed, layout, alive, op, arg,
                 tmp, result, nextId,
                 ttype, drops, polls, installed, nAlloc, nFree, pre>>

\* ---- set with a different layout: *self = Self::new(future) -------------
\* mutant: the old box is dropped and freed before the new one is allocated
SetNewAfterFree ==
  /\ pc = "set_new"
  /\ \E a \in FreeAddrs(heap) \cup {boxed.addr} :
       /\ heap' = BoxNew([heap EXCEPT ![boxed.addr] = FreeBlock],
                         arg, ttype[arg], a)
       /\ tmp' = NewSelf(ttype[arg], a)
  /\ drops' = [drops EXCEPT ![Occupant] = @ + 1]
  /\ result' = IF DropPanics(boxed.vt) THEN "Err" ELSE "Ok"
  /\ nAlloc' = nAlloc + 1
  /\ nFree' = nFree + 1
  /\ pc' = "assign_write"
  /\ UNCHANGED <<thread, origin, fmtOut, boxed, layout, alive, op, arg, ret,
                 nextId, ttype,
                 polls, installed, pre>>

\* the right-hand side is evaluated first
SetNew ==
  /\ pc = "set_new"
  /\ \E a \in FreeAddrs(heap) :
       /\ heap' = BoxNew(heap, arg, ttype[arg], a)
       /\ tmp' = NewSelf(ttype[arg], a)
  /\ nAlloc' = nAlloc + 1
  /\ pc' = "drop_val"
  /\ UNCHANGED <<thread, origin, fmtOut, boxed, layout, alive, op, arg,
                 result, ret, nextId, ttype,
                 drops, polls, installed, nFree, pre>>

\* ---- Drop for ReusableBoxFuture: drop(Box::from_raw(self.boxed)) --------
\* first the contents are destroyed through the vtable
DropBoxVal ==
  /\ pc = "drop_val"
  /\ DropInPlace(boxed)
  /\ pc' = "drop_free"
  /\ UNCHANGED <<thread, origin, fmtOut, boxed, layout, alive, op, arg, tmp,
                 ret, nextId, ttype,
                 polls, installed, nAlloc, nFree, pre>>

\* mutant: the block is not deallocated when the destructor unwinds
DropBoxFreeLeakOnPanic ==
  /\ pc = "drop_free"
  /\ heap' = IF result = "Err" THEN heap
             ELSE [heap EXCEPT ![boxed.addr] = FreeBlock]
  /\ nFree' = IF result = "Err" THEN nFree ELSE nFree + 1
  /\ pc' = IF op = "set" THEN "assign_write" ELSE "drop_end"
  /\ UNCHANGED <<thread, origin, fmtOut, boxed, layout, alive, op, arg, tmp,
                 result, ret, nextId, ttype, drops, polls, installed, nAlloc,
                 pre>>

\* then the block is deallocated, on the normal and on the unwinding path
DropBoxFree ==
  /\ pc = "drop_free"
  /\ heap' = [heap EXCEPT ![boxed.addr] = FreeBlock]
  /\ nFree' = nFree + 1
  /\ pc' = IF op = "set" THEN "assign_write" ELSE "drop_end"
  /\ UNCHANGED <<thread, origin, fmtOut, boxed, layout, alive, op, arg, tmp,
                 result, ret, nextId,
                 ttype, drops, polls, installed, nAlloc, pre>>

\* mutant: the new value is not moved into *self when the drop unwinds
AssignWriteSkipOnPanic ==
  /\ pc = "assign_write"
  /\ boxed' = IF result = "Err" THEN boxed ELSE tmp.boxed
  /\ layout' = IF result = "Err" THEN layout ELSE tmp.layout
  /\ tmp' = NoSelf
  /\ installed' = IF result = "Err" THEN installed ELSE installed \cup {arg}
  /\ ret' = [kind |-> IF result = "Err" THEN "panic" ELSE "unit",
             task |-> 0, addr |-> 0]
  /\ pc' = "idle"
  /\ UNCHANGED <<thread, origin, fmtOut, heap, alive, op, arg, result,
                 nextId, ttype, drops, polls, nAlloc, nFree, pre>>

\* the new value is moved into *self, on the normal and on the unwinding
\* path; then set returns or keeps unwinding
AssignWrite ==
  /\ pc = "assign_write"
  /\ boxed' = tmp.boxed
  /\ layout' = tmp.layout
  /\ tmp' = NoSelf
  /\ installed' = installed \cup {arg}
  /\ ret' = [kind |-> IF result = "Err" THEN "panic" ELSE "unit",
             task |-> 0, addr |-> 0]
  /\ pc' = "idle"
  /\ UNCHANGED <<thread, origin, fmtOut, heap, alive, op, arg, result,
                 nextId, ttype, drops, polls,
                 nAlloc, nFree, pre>>

\* the caller drops the container
DropContainer ==
  /\ pc = "idle"
  /\ alive
  /\ op' = "drop"
  /\ pre' = Snapshot
  /\ nAlloc' = 0
  /\ nFree' = 0
  /\ result' = "none"
  /\ pc' = "drop_val"
  /\ UNCHANGED <<thread, origin, fmtOut, heap, boxed, layout, alive, arg,
                 tmp, ret, nextId, ttype,
                 drops, polls, installed>>

DropEnd ==
  /\ pc = "drop_end"
  /\ alive' = FALSE
  /\ ret' = [kind |-> IF result = "Err" THEN "panic" ELSE "unit",
             task |-> 0, addr |-> 0]
  /\ pc' = "dropped"
  /\ UNCHANGED <<thread, origin, fmtOut, heap, boxed, layout, op, arg, tmp,
                 result, nextId, ttype,
                 drops, polls, installed, nAlloc, nFree, pre>>

\* ---- get_pin / poll -----------------------------------------------------
\* Pin::new_unchecked(self.boxed.as_mut())
GetPin ==
  /\ pc = "idle"
  /\ alive
  /\ op' = "get_pin"
  /\ pre' = Snapshot
  /\ nAlloc' = 0
  /\ nFree' = 0
  /\ result' = "none"
  /\ ret' = [kind |-> "pin", task |-> Occupant, addr |-> boxed.addr]
  /\ UNCHANGED <<thread, origin, fmtOut, heap, boxed, layout, alive, pc, arg,
                 tmp, nextId, ttype,
                 drops, polls, installed>>

\* mutant: the occupant is driven two steps by one poll call
PollOccupantTwice(name) ==
  /\ pc = "idle"
  /\ alive
  /\ TotalPolls < MaxPolls
  /\ op' = name
  /\ pre' = Snapshot
  /\ nAlloc' = 0
  /\ nFree' = 0
  /\ result' = "none"
  /\ polls' = [polls EXCEPT ![Occupant] = @ + 2]
  /\ ret' = [kind |-> PollOutcome(boxed.vt, polls[Occupant] + 2),
             task |-> Occupant, addr |-> 0]
  /\ UNCHANGED <<thread, origin, fmtOut, heap, boxed, layout, alive, pc, arg,
                 tmp, nextId, ttype, drops, installed>>

\* mutant: a panic of the occupant's poll is caught and reported as Pending
PollOccupantIntercept(name) ==
  /\ pc = "idle"
  /\ alive
  /\ TotalPolls < MaxPolls
  /\ op' = name
  /\ pre' = Snapshot
  /\ nAlloc' = 0
  /\ nFree' = 0
  /\ result' = "none"
  /\ polls' = [polls EXCEPT ![Occupant] = @ + 1]
  /\ ret' = [kind |-> IF PollOutcome(boxed.vt, polls[Occupant] + 1) = "panic"
                      THEN "Pending"
                      ELSE PollOutcome(boxed.vt, polls[Occupant] + 1),
             task |-> Occupant, addr |-> 0]
  /\ UNCHANGED <<thread, origin, fmtOut, heap, boxed, layout, alive, pc, arg,
                 tmp, nextId, ttype, drops, installed>>

\* self.get_pin().poll(cx): the poll of the vtable's type runs on the slot;
\* its result, or its panic, goes to the caller as it is
PollOccupant(name) ==
  /\ pc = "idle"
  /\ alive
  /\ TotalPolls < MaxPolls
  /\ op' = name
  /\ pre' = Snapshot
  /\ nAlloc' = 0
  /\ nFree' = 0
  /\ result' = "none"
  /\ polls' = [polls EXCEPT ![Occupant] = @ + 1]
  /\ \E k \in (IF Sound(boxed)
               THEN {PollOutcome(boxed.vt, polls[Occupant] + 1)}
               ELSE {"Pending", "Ready", "panic"}) :
       ret' = [kind |-> k, task |-> Occupant, addr |-> 0]
  /\ UNCHANGED <<thread, origin, fmtOut, heap, boxed, layout, alive, pc, arg,
                 tmp, nextId, ttype, drops, installed>>

\* ReusableBoxFuture::poll(&mut self, cx)
Poll == PollOccupant("poll")

\* <ReusableBoxFuture<T> as Future>::poll(self: Pin<&mut Self>, cx)
FuturePoll == PollOccupant("future_poll")

Next ==
  \/ Set
  \/ TrySet
  \/ SslDrop
  \/ SslWrite
  \/ SslVtable
  \/ SslReturn
  \/ SslResumeUnwind
  \/ SetNew
  \/ DropBoxVal
  \/ DropBoxFree
  \/ AssignWrite
  \/ DropContainer
  \/ DropEnd
  \/ GetPin
  \/ Poll
  \/ FuturePoll

Spec == Init /\ [][Next]_vars

\* ---- Send: the container is handed to another thread --------------------
NThreads == 2

Threads == 1 .. NThreads

\* the futures of this type must stay on the thread that created them
ThreadBound(ty) == ty = "B"

\* unsafe impl<T> Send for ReusableBoxFuture<T>: any container may be moved
MoveToThread ==
  /\ pc = "idle"
  /\ alive
  /\ \E th \in Threads \ {thread} : thread' = th
  /\ UNCHANGED <<origin, fmtOut, heap, boxed, layout, alive, pc, op, arg, tmp,
                 result, ret, nextId, ttype, drops, polls, installed, nAlloc,
                 nFree, pre>>

NextSend ==
  \/ Next
  \/ MoveToThread

SpecSend == Init /\ [][NextSend]_vars

\* ---- Sync: Debug::fmt through a shared reference ------------------------
MaxFmt == 1

\* mutant: the formatter prints the type behind the vtable
FmtInspects ==
  /\ pc = "idle"
  /\ alive
  /\ Len(fmtOut) < MaxFmt
  /\ fmtOut' = Append(fmtOut, boxed.vt)
  /\ UNCHANGED <<thread, origin, heap, boxed, layout, alive, pc, op, arg, tmp,
                 result, ret, nextId, ttype, drops, polls, installed, nAlloc,
                 nFree, pre>>

\* f.debug_struct("ReusableBoxFuture").finish()
Fmt ==
  /\ pc = "idle"
  /\ alive
  /\ Len(fmtOut) < MaxFmt
  /\ fmtOut' = Append(fmtOut, "ReusableBoxFuture")
  /\ UNCHANGED <<thread, origin, heap, boxed, layout, alive, pc, op, arg, tmp,
                 result, ret, nextId, ttype, drops, polls, installed, nAlloc,
                 nFree, pre>>

NextSync ==
  \/ Next
  \/ Fmt

SpecSync == Init /\ [][NextSync]_vars

TypeOK ==
  /\ boxed.addr \in Addrs
  /\ pc \in {"idle", "ssl_drop", "ssl_write", "ssl_vtable", "ssl_match",
             "set_new", "drop_val", "drop_free", "assign_write", "drop_end",
             "dropped"}
  /\ nextId \in TaskIds
  /\ thread \in Threads
  /\ Len(fmtOut) <= MaxFmt

\* ---- vocabulary of the properties ---------------------------------------
\* the call `name` has returned or unwound to its caller
Returned(name) == pc = "idle" /\ op = name

\* layout of the future passed to the running / last set or try_set
ArgLayout == LayoutOf(ttype[arg])

\* that layout equalled the stored layout when the call started
Matched == ArgLayout = pre.layout

\* the occupant when the call started
PreOcc == pre.heap[pre.boxed.addr].val

SameBlocks(h1, h2) ==
  \A a \in Addrs : h1[a].live = h2[a].live /\ h1[a].layout = h2[a].layout

\* C1: a set call allocates and frees (once each, the free being of the old
\* block) exactly when the new future's layout differs from the stored
\* layout; with equal layouts it allocates nothing and frees nothing.
C1_SetReallocatesIffLayoutDiffers ==
  Returned("set") =>
    /\ Matched => /\ nAlloc = 0
                  /\ nFree = 0
                  /\ SameBlocks(heap, pre.heap)
    /\ ~Matched => /\ nAlloc = 1
                   /\ nFree = 1
                   /\ ~heap[pre.boxed.addr].live
                   /\ LiveAddrs(heap) = {boxed.addr}

C1_Witness ==
  /\ Returned("set")
  /\ ~Matched
  /\ nAlloc = 1
  /\ nFree = 1

\* C2: at no point of a try_set call, whatever its outcome, has anything
\* been allocated or freed: the live blocks are those of the call's start.
C2_TrySetNoAllocTraffic ==
  op = "try_set" =>
    /\ nAlloc = 0
    /\ nFree = 0
    /\ SameBlocks(heap, pre.heap)

C2_Witness ==
  /\ Returned("try_set")
  /\ ret.kind = "panic"
  /\ nAlloc = 0
  /\ nFree = 0

\* C3: a try_set with a future of different layout changes nothing: the
\* slot, the pointer, the vtable, the layout and every destructor count are
\* as before, the same future comes back as Err, and a poll that follows
\* drives the old occupant and not the rejected future.
C3_Rejected == Returned("try_set") /\ ~Matched

C3_TrySetRejectionPreservesState ==
  /\ [](C3_Rejected =>
          /\ ret = [kind |-> "Err", task |-> arg, addr |-> 0]
          /\ boxed = pre.boxed
          /\ layout = pre.layout
          /\ heap = pre.heap
          /\ drops = pre.drops
          /\ drops[arg] = 0
          /\ arg \notin installed
          /\ Occupant = PreOcc
          /\ Sound(boxed))
  /\ [][(C3_Rejected /\ op' = "poll") =>
          /\ ret'.task = PreOcc
          /\ ret'.kind = PollOutcome(ttype[PreOcc], polls[PreOcc] + 1)
          /\ polls'[PreOcc] = polls[PreOcc] + 1
          /\ polls'[arg] = 0]_vars

C3_Witness ==
  /\ C3_Rejected
  /\ ret.kind = "Err"
  /\ ret.task = arg
  /\ Occupant = PreOcc

\* C4 as stated: a try_set with a future of the stored layout returns
\* success, the address is unchanged and the new future is the one a poll
\* drives.
C4_Accepted == Returned("try_set") /\ Matched

C4_AsStated ==
  C4_Accepted =>
    /\ ret.kind = "Ok"
    /\ boxed.addr = pre.boxed.addr
    /\ Occupant = arg
    /\ Sound(boxed)

\* C4 (amended): a try_set with a future of the stored layout returns
\* success unless the old occupant's destructor panicked, in which case the
\* panic reaches the caller instead; either way the address is unchanged and
\* a poll that follows drives the new future.
C4_TrySetAcceptance ==
  /\ [](C4_Accepted =>
          /\ ret.kind = IF DropPanics(ttype[PreOcc]) THEN "panic" ELSE "Ok"
          /\ boxed.addr = pre.boxed.addr
          /\ Occupant = arg
          /\ Sound(boxed))
  /\ [][(C4_Accepted /\ op' = "poll") =>
          /\ ret'.task = arg
          /\ ret'.kind = PollOutcome(ttype[arg], 1)
          /\ polls'[arg] = 1
          /\ polls'[PreOcc] = polls[PreOcc]]_vars

C4_Witness ==
  /\ C4_Accepted
  /\ ret.kind = "Ok"
  /\ ttype[arg] # ttype[PreOcc]
  /\ Occupant = arg

\* C5: when the old occupant's destructor panics in a same-layout set or
\* try_set, the caller sees the panic, and at that point the slot at the
\* same address holds the new future, the layout is unchanged and the vtable
\* is the new future's; a poll that follows drives the new future, a
\* destruction that follows starts on the new future, and the old occupant's
\* destructor never runs a second time.
C5_Panicked ==
  /\ pc = "idle"
  /\ op \in {"set", "try_set"}
  /\ Matched
  /\ DropPanics(ttype[PreOcc])

C5_PanicDuringReplaceLeavesValidState ==
  /\ [](C5_Panicked =>
          /\ ret.kind = "panic"
          /\ boxed.addr = pre.boxed.addr
          /\ layout = pre.layout
          /\ boxed.vt = ttype[arg]
          /\ Occupant = arg
          /\ Sound(boxed)
          /\ drops[PreOcc] = 1
          /\ drops[arg] = 0)
  /\ [][/\ (C5_Panicked /\ op' = "poll") => ret'.task = arg
        /\ (C5_Panicked /\ op' = "drop") =>
              /\ pc' = "drop_val"
              /\ heap'[boxed'.addr].val = arg
              /\ heap'[boxed'.addr].valid
              /\ boxed'.vt = ttype[arg]
        /\ pc = "drop_val" => drops'[Occupant] = 1
        /\ \A t \in TaskIds :
              (DropPanics(ttype[t]) /\ drops[t] >= 1) => drops'[t] = drops[t]
       ]_vars

C5_Witness ==
  /\ C5_Panicked
  /\ ret.kind = "panic"
  /\ Occupant = arg
  /\ boxed.vt = ttype[arg]
  /\ drops[PreOcc] = 1

\* C6: every future ever installed has its destructor run at most once at
\* any time, exactly once when it is no longer the occupant and exactly once
\* after the container is destroyed; a future never installed is never
\* destroyed by the container; dropping the container runs the destructor of
\* the occupant of that moment and no other.
C6_EveryOccupantDestroyedExactlyOnce ==
  /\ \A t \in TaskIds :
       /\ drops[t] <= 1
       /\ t \notin installed => drops[t] = 0
       /\ (pc = "idle" /\ t \in installed) => (drops[t] = 1 <=> t # Occupant)
       /\ (pc = "dropped" /\ t \in installed) => drops[t] = 1
  /\ (op = "drop" /\ pc \in {"drop_free", "drop_end", "dropped"}) =>
       \A t \in TaskIds :
         drops[t] = pre.drops[t] + (IF t = PreOcc THEN 1 ELSE 0)

C6_Witness ==
  /\ pc = "dropped"
  /\ Cardinality(installed) = 3
  /\ \E t \in installed : DropPanics(ttype[t])
  /\ \A t \in installed : drops[t] = 1

\* C7: between calls the stored layout is the layout of the future that is
\* in the slot and the layout the block was allocated with.
C7_LayoutDescribesOccupant ==
  (pc = "idle" /\ alive) =>
    /\ heap[boxed.addr].live
    /\ heap[boxed.addr].valid
    /\ layout = LayoutOf(ttype[Occupant])
    /\ layout = heap[boxed.addr].layout

C7_Witness ==
  /\ Returned("set")
  /\ ~Matched
  /\ layout = ArgLayout
  /\ layout # pre.layout
  /\ heap[boxed.addr].layout = layout

\* C8: wherever the vtable is used (poll and get_pin between calls, the
\* teardown of a same-layout replacement, the destructor run by Drop) the
\* slot holds a constructed value of exactly the vtable's type.
C8_VtableDescribesOccupant ==
  ((pc = "idle" /\ alive) \/ pc = "ssl_drop" \/ pc = "drop_val") =>
    Sound(boxed)

C8_Witness ==
  /\ pc = "idle"
  /\ op \in {"set", "try_set"}
  /\ Matched
  /\ ttype[arg] # ttype[PreOcc]
  /\ boxed.vt = ttype[arg]
  /\ Occupant = arg

\* C9: the only step that changes the occupant's address is the assignment
\* of a set whose future has a different layout; a set with equal layout, a
\* try_set, a poll and a get_pin end with the address they started with.
C9_AddressStable ==
  /\ [][boxed'.addr # boxed.addr =>
          (op = "set" /\ pc = "assign_write" /\ ~Matched)]_vars
  /\ []((pc = "idle" /\ alive /\ ~(op = "set" /\ ~Matched) /\ op # "new") =>
          /\ boxed.addr = pre.boxed.addr
          /\ heap[boxed.addr].live)

C9_Witness ==
  /\ Returned("set")
  /\ Matched
  /\ PreOcc # 1
  /\ Occupant = arg
  /\ boxed.addr = pre.boxed.addr

\* C10: a set with a future of different size or alignment ends with the
\* occupant at another address than before and with the stored layout equal
\* to the new future's, whichever free address the allocator returned.
C10_ReallocationOnMismatch ==
  (Returned("set") /\ ~Matched) =>
    /\ boxed.addr # pre.boxed.addr
    /\ layout = ArgLayout
    /\ Occupant = arg
    /\ heap[boxed.addr].live
    /\ heap[boxed.addr].layout = ArgLayout

C10_Witness ==
  /\ Returned("set")
  /\ ~Matched
  /\ ArgLayout.size = pre.layout.size
  /\ ArgLayout.align # pre.layout.align
  /\ boxed.addr # pre.boxed.addr
  /\ layout = ArgLayout
\* C11: a block is deallocated only while it is live and after the value in
\* it has been destroyed; only a set with a different layout and the drop of
\* the container deallocate, once per call and the block of the call's
\* start; the live blocks are those of the call's start plus the allocated
\* minus the freed ones; between calls the container's block is the only
\* live one and after the drop of the container none is, also when a
\* destructor panicked.
C11_AllocationFreedExactlyOnce ==
  /\ pc = "drop_free" =>
       /\ heap[boxed.addr].live
       /\ ~heap[boxed.addr].valid
       /\ drops[Occupant] = 1
  /\ nFree <= 1
  /\ nFree = 1 =>
       /\ (op = "set" /\ ~Matched) \/ op = "drop"
       /\ ~heap[pre.boxed.addr].live
  /\ Cardinality(LiveAddrs(heap)) =
       Cardinality(LiveAddrs(pre.heap)) + nAlloc - nFree
  /\ (pc = "idle" /\ alive) => LiveAddrs(heap) = {boxed.addr}
  /\ pc = "dropped" => LiveAddrs(heap) = {}

C11_Witness ==
  /\ pc = "dropped"
  /\ result = "Err"
  /\ nFree = 1
  /\ LiveAddrs(heap) = {}
  /\ Cardinality(installed) >= 2

\* C12: a poll, through the method or through the Future implementation,
\* drives the occupant one step and returns what the occupant's own k-th
\* poll returns, k being the number of polls the occupant has had; the
\* occupant, the pointer, the layout, the heap and the destructor counts are
\* as before the call.
C12_PollReturned == pc = "idle" /\ op \in {"poll", "future_poll"}

C12_PollTransparency ==
  C12_PollReturned =>
    /\ ret.task = PreOcc
    /\ ret.kind = PollOutcome(ttype[PreOcc], pre.polls[PreOcc] + 1)
    /\ polls = [pre.polls EXCEPT ![PreOcc] = @ + 1]
    /\ Occupant = PreOcc
    /\ boxed = pre.boxed
    /\ layout = pre.layout
    /\ heap = pre.heap
    /\ drops = pre.drops

C12_Witness ==
  /\ Returned("future_poll")
  /\ ttype[Occupant] = "A"
  /\ pre.polls[Occupant] = 1
  /\ polls[Occupant] = 2
  /\ ret.kind = "Ready"
\* C13 as stated: only futures that may change thread get into the
\* container, so no thread-bound future is polled or destroyed on a thread
\* other than the one that created it.
C13_AsStated ==
  [][/\ \A t \in installed' \ installed : ~ThreadBound(ttype'[t])
     /\ \A t \in TaskIds :
          (ThreadBound(ttype[t]) /\ (polls'[t] # polls[t] \/ drops'[t] # drops[t]))
            => origin[t] = thread
    ]_vars

\* C14: one same-layout replacement runs, in this order and once each: the
\* old occupant's destructor, on the slot that still holds the old value and
\* with the old vtable; the write of the new future into the same slot,
\* whatever the destructor's outcome; the switch of the vtable to the new
\* future's type; the return, or the resumption of the captured panic.  The
\* caller observes nothing before the last step.
C14_InSsl == pc \in {"ssl_drop", "ssl_write", "ssl_vtable", "ssl_match"}

C14_SameLayoutProtocolOrder ==
  /\ [](C14_InSsl =>
          /\ boxed.addr = pre.boxed.addr
          /\ layout = pre.layout
          /\ drops[arg] = 0
          /\ polls = pre.polls)
  /\ [](pc = "ssl_drop" =>
          /\ heap = pre.heap
          /\ boxed = pre.boxed
          /\ drops = pre.drops
          /\ result = "none")
  /\ [](pc = "ssl_write" =>
          /\ heap[boxed.addr].val = PreOcc
          /\ ~heap[boxed.addr].valid
          /\ boxed = pre.boxed
          /\ drops = [pre.drops EXCEPT ![PreOcc] = @ + 1]
          /\ result = IF DropPanics(ttype[PreOcc]) THEN "Err" ELSE "Ok")
  /\ [](pc = "ssl_vtable" =>
          /\ heap[boxed.addr].val = arg
          /\ heap[boxed.addr].valid
          /\ boxed = pre.boxed
          /\ drops = [pre.drops EXCEPT ![PreOcc] = @ + 1])
  /\ [](pc = "ssl_match" =>
          /\ heap[boxed.addr].val = arg
          /\ heap[boxed.addr].valid
          /\ boxed.vt = ttype[arg]
          /\ drops = [pre.drops EXCEPT ![PreOcc] = @ + 1])
  /\ [][/\ pc = "ssl_drop" => (pc' = "ssl_write" /\ ret' = ret)
        /\ pc = "ssl_write" => (pc' = "ssl_vtable" /\ ret' = ret)
        /\ pc = "ssl_vtable" => (pc' = "ssl_match" /\ ret' = ret)
        /\ pc = "ssl_match" =>
             /\ pc' = "idle"
             /\ ret'.kind = "panic" <=> result = "Err"
             /\ UNCHANGED <<heap, boxed, layout, drops>>
       ]_vars

C14_Witness ==
  /\ pc = "ssl_match"
  /\ result = "Err"
  /\ heap[boxed.addr].val = arg
  /\ boxed.vt = ttype[arg]
  /\ ttype[arg] # ttype[PreOcc]
  /\ drops[PreOcc] = 1
\* C15 as stated: in a set with a different layout the old occupant is
\* destroyed and the old block freed before the new block is allocated, so
\* at most one block is live at any moment.
C15_AsStated ==
  /\ Cardinality(LiveAddrs(heap)) <= 1
  /\ (op = "set" /\ nAlloc = 1) => (nFree = 1 /\ drops[PreOcc] = 1)

\* C15 (amended): in a set with a different layout the new block, holding
\* the new future, is allocated first, while the old block is live and its
\* occupant intact; then the old occupant is destroyed, then the old block
\* is freed, then the container takes the new block.  Two blocks are live
\* from the allocation to the free, and only then; between calls exactly
\* one is.
C15_ReallocationOrder ==
  /\ [](pc = "set_new" =>
          /\ heap = pre.heap
          /\ drops = pre.drops
          /\ nAlloc = 0
          /\ nFree = 0)
  /\ []((op = "set" /\ pc \in {"drop_val", "drop_free"}) =>
          /\ tmp.boxed.addr # boxed.addr
          /\ LiveAddrs(heap) = {boxed.addr, tmp.boxed.addr}
          /\ heap[tmp.boxed.addr].val = arg
          /\ heap[tmp.boxed.addr].valid
          /\ heap[boxed.addr].val = PreOcc
          /\ heap[boxed.addr].valid <=> pc = "drop_val"
          /\ drops[PreOcc] = IF pc = "drop_val" THEN 0 ELSE 1
          /\ nAlloc = 1
          /\ nFree = 0)
  /\ [](pc = "assign_write" =>
          /\ LiveAddrs(heap) = {tmp.boxed.addr}
          /\ drops[PreOcc] = 1
          /\ nAlloc = 1
          /\ nFree = 1)
  /\ [](Cardinality(LiveAddrs(heap)) = 2 =>
          (op = "set" /\ pc \in {"drop_val", "drop_free"}))
  /\ [](Cardinality(LiveAddrs(heap)) <= 2)
  /\ []((pc = "idle" /\ alive) => Cardinality(LiveAddrs(heap)) = 1)
  /\ [][pc = "set_new" =>
          /\ pc' = "drop_val"
          /\ nAlloc' = 1
          /\ nFree' = 0
          /\ drops' = drops
          /\ heap'[boxed.addr] = heap[boxed.addr]]_vars

C15_Witness ==
  /\ op = "set"
  /\ pc = "drop_free"
  /\ result = "Err"
  /\ Cardinality(LiveAddrs(heap)) = 2
  /\ heap[tmp.boxed.addr].val = arg

\* C16: wherever a call can start, also after a panic came out of set,
\* try_set or poll, the container's block is the only live block and holds
\* one constructed, never destroyed value, which is the only such value on
\* the heap; a destructor only runs on such a value, and every write, vtable
\* switch and deallocation inside a call is on a live block.
C16_ValuesOnHeap ==
  {t \in TaskIds : \E a \in Addrs :
     heap[a].live /\ heap[a].valid /\ heap[a].val = t}

C16_ExactlyOneOccupant ==
  /\ (pc = "idle" /\ alive) =>
       /\ LiveAddrs(heap) = {boxed.addr}
       /\ heap[boxed.addr].valid
       /\ Occupant \in installed
       /\ drops[Occupant] = 0
       /\ C16_ValuesOnHeap = {Occupant}
  /\ pc \in {"ssl_drop", "drop_val"} =>
       /\ heap[boxed.addr].live
       /\ heap[boxed.addr].valid
       /\ drops[Occupant] = 0
  /\ pc \in {"ssl_write", "ssl_vtable", "ssl_match", "drop_free"} =>
       heap[boxed.addr].live

C16_Witness ==
  /\ pc = "idle"
  /\ alive
  /\ op \in {"set", "try_set"}
  /\ Matched
  /\ ret.kind = "panic"
  /\ heap[boxed.addr].valid
  /\ C16_ValuesOnHeap = {arg}

\* C17: when the occupant's poll panics the caller of poll gets the panic,
\* and the occupant, the pointer and vtable, the layout and the heap are as
\* before the call; such an occupant is not destroyed by the poll, is
\* destroyed once it is replaced, and has been destroyed exactly once when
\* the container is gone.
C17_PollPanics(t) == PollOutcome(ttype[t], 1) = "panic"

C17_PollPanicPropagates ==
  /\ (C12_PollReturned /\ C17_PollPanics(PreOcc)) =>
       /\ ret.kind = "panic"
       /\ ret.task = PreOcc
       /\ Occupant = PreOcc
       /\ boxed = pre.boxed
       /\ layout = pre.layout
       /\ heap = pre.heap
       /\ drops[PreOcc] = 0
       /\ Sound(boxed)
  /\ \A t \in installed :
       (C17_PollPanics(t) /\ polls[t] >= 1) =>
          /\ drops[t] <= 1
          /\ (pc = "idle" /\ t # Occupant) => drops[t] = 1
          /\ pc = "dropped" => drops[t] = 1

C17_Witness ==
  /\ pc = "dropped"
  /\ \E t \in installed :
       /\ C17_PollPanics(t)
       /\ polls[t] >= 1
       /\ drops[t] = 1

\* C18: when the old occupant's destructor panics in a set with a different
\* layout, the caller gets the panic and the container holds the new future
\* in the new block, with the new future's layout and vtable; the old block
\* is freed, and the old occupant's destructor has run once and never runs
\* again.
C18_Panicked ==
  /\ Returned("set")
  /\ ~Matched
  /\ DropPanics(ttype[PreOcc])

C18_PanicDuringReallocation ==
  /\ C18_Panicked =>
       /\ ret.kind = "panic"
       /\ Occupant = arg
       /\ Sound(boxed)
       /\ layout = ArgLayout
       /\ heap[boxed.addr].layout = ArgLayout
       /\ boxed.addr # pre.boxed.addr
       /\ ~heap[pre.boxed.addr].live
       /\ nFree = 1
       /\ drops[PreOcc] = 1
  /\ \A t \in TaskIds :
       (DropPanics(ttype[t]) /\ t # Occupant /\ t \in installed)
         => drops[t] = 1

C18_Witness ==
  /\ C18_Panicked
  /\ ret.kind = "panic"
  /\ layout = ArgLayout
  /\ ~heap[pre.boxed.addr].live
  /\ drops[PreOcc] = 1

\* C19: the future passed to set or try_set is never destroyed by the call
\* and is never in two blocks; set ends, by return or by panic, with it as
\* the occupant; try_set ends with it as the occupant when the layouts
\* matched, and otherwise with it in the Err value and nowhere on the heap.
C19_BlocksHolding(t) == {a \in Addrs : heap[a].live /\ heap[a].val = t}

C19_PassedTaskInstalledOrReturned ==
  /\ op \in {"set", "try_set"} =>
       /\ drops[arg] = 0
       /\ Cardinality(C19_BlocksHolding(arg)) <= 1
  /\ Returned("set") =>
       /\ Occupant = arg
       /\ heap[boxed.addr].valid
       /\ arg \in installed
  /\ (Returned("try_set") /\ Matched) =>
       /\ Occupant = arg
       /\ heap[boxed.addr].valid
       /\ arg \in installed
       /\ ret.task # arg
  /\ (Returned("try_set") /\ ~Matched) =>
       /\ ret.kind = "Err"
       /\ ret.task = arg
       /\ C19_BlocksHolding(arg) = {}
       /\ arg \notin installed

C19_Witness ==
  /\ Returned("set")
  /\ ~Matched
  /\ ret.kind = "panic"
  /\ C19_BlocksHolding(arg) = {boxed.addr}
  /\ drops[arg] = 0

====
